---- MODULE Spec2Model ----
(***************************************************************************)
(* Verification model of the USM-Lap lap-time solver.                      *)
(*                                                                         *)
(*   simulation/solution.py                 SolutionNode, Solution         *)
(*   simulation/solver/quasi_steady_state.py  QuasiSteadyStateSolver       *)
(*   simulation/solver/quasi_transient.py     QuasiTransientSolver         *)
(*   simulation/model/point_mass.py           lateral_vehicle_model        *)
(*                                                                         *)
(* Number representation.  Python floats are modelled by integers:         *)
(*   - every velocity of a SolutionNode (maximum_velocity,                 *)
(*     initial_velocity, final_velocity) is stored as its SQUARE, in       *)
(*     (m/s)^2.  All these velocities are >= 0, so min() and the order     *)
(*     comparisons of the code are unchanged on the squares, and           *)
(*     sqrt(u^2 + 2*a*s) is stored as u^2 + 2*a*s.  math.sqrt of a         *)
(*     negative number raises ValueError: that case is modelled            *)
(*     explicitly wherever the code takes a square root;                   *)
(*   - times are in units of 1e-4 s, and velocities entering a time are    *)
(*     the integer square roots of the stored squares, in 1e-2 m/s;        *)
(*   - the state of charge is in thousandths.                              *)
(***************************************************************************)
EXTENDS Integers, Sequences, FiniteSets

\* ------------------------------------------------------------------ bounds
NumNodes == 4
MaxVel == 3
MaxAcc == 4
\* weight * sin(|banking|) of a banked node, in newtons
BankedWeight == 2
\* vehicle.total_mass, in kg
TotalMass == 1

\* the longest track given to the mesh generator, and the coarsest
\* resolution, in kilometres
MaxTrackLength == 6
MaxResolution == 2
\* the most nodes of a mesh constructed directly
MaxGivenNodes == 2
\* the startpoints of the grip-factor and sector data of a track
MaxStartpoints == 2
\* the calls of generate_mesh on one TrackData that lengthen its lists
MaxInterpolations == 2
\* the times given to the points functions, in seconds
MaxTime == 4

\* ------------------------------------------------------- program constants
MAXIMUM_TRANSIENT_ITERATIONS == 100
\* 1e-4 s, in the time unit of the model (1e-4 s)
CONVERGENCE_TOLERANCE == 1
\* state_of_charge: float = 1, in thousandths
FULL_STATE_OF_CHARGE == 1000
LATERAL_ITERATION_LIMIT == 10000
\* in metres
ENDURANCE_TRACK_LENGTH == 22000

VelocityUnitsPerMetrePerSecond == 10 * 10
TimeUnitsPerSecond == 100 * 100
\* energy, in power units times 1e-4 s, per thousandth of the full charge
EnergyPerChargeUnit == 10 * 10

Nodes == 0 .. (NumNodes - 1)

Min(a, b) == IF a < b THEN a ELSE b
Max(a, b) == IF a > b THEN a ELSE b
Abs(a) == IF a < 0 THEN -a ELSE a

\* Squared velocities the lateral vehicle model can return for a node.
LateralLimits == {v * v : v \in 1 .. MaxVel}

\* Outcome of a vehicle-model call: a value, or ValueError raised by the
\* tyre model (tyre_model.py:143) inside it.
Value(x) == [raised |-> FALSE, value |-> x]
ValueError == [raised |-> TRUE, value |-> 0]
Accelerations == {-1, 0, 1, MaxAcc}
Outcomes == {ValueError} \cup {Value(a) : a \in Accelerations}
Powers == {0, 1, 2}

VARIABLES
    \* the mesh: per node, the lateral vehicle model's velocity limit, and
    \* len(solution.nodes); the nodes from node_count on do not exist
    lateral_limit, node_count,
    \* the vehicle model: the outcomes its calls can produce
    vehicle_model,
    \* SolutionNode fields, one function over Nodes each
    maximum_velocity, initial_velocity, final_velocity, apex,
    initial_velocity_anchored, final_velocity_anchored,
    state_of_charge, accumulator_power,
    \* QuasiSteadyStateSolver.solve: position and locals
    pc, worklist, index, apex_indices,
    acceleration, deceleration,
    \* the last propagation step: its pass, node, traction-limited velocity
    \* and the exception its try block caught
    step,
    error,
    \* QuasiTransientSolver.solve: its position ("none" when the QSS solver is
    \* called directly), the loop index i, the last two entries of times (the
    \* only ones read), and the kinds of log events emitted
    loop, iteration, times, log,
    \* PointMassVehicleModel.lateral_vehicle_model: the frame of one call
    lateral,
    \* track/mesh.py: the TrackData and resolution given to a MeshGenerator,
    \* the Mesh it returned (or a Mesh constructed directly), the endurance
    \* mesh derived from that mesh, and the exception raised, if any
    track_data, mesh, endurance_mesh, mesh_error,
    \* Channel._REGISTRY and Parameter._REGISTRY (dictionaries from names to
    \* classes), the number of classes defined so far, and the outcome of
    \* the last get_channel or get_parameter
    channel_registry, parameter_registry, classes, lookup,
    \* channels/functions.py: the values of two base channels over the
    \* nodes of a solution, and the outcome of the last combinator evaluated
    base_channels, channel_output,
    \* powertrain/accumulator.py: the Accumulator, and the outcome of the
    \* last get_voltage
    accumulator, voltage,
    \* the caller of QuasiSteadyStateSolver.solve: the velocities and apex
    \* flags the first solve returned, once solve is called again on them
    first_run,
    \* the last two calls of traction_limit_velocity on one node: the
    \* acceleration of the vehicle model and the velocity returned
    traction_calls,
    \* the last two calls of the FSUK points functions: the event, the
    \* times and the points returned
    points

nodeVars == <<maximum_velocity, initial_velocity, final_velocity, apex,
              initial_velocity_anchored, final_velocity_anchored,
              state_of_charge, accumulator_power>>
solveVars == <<pc, worklist, index, apex_indices, acceleration, deceleration,
               step, error>>
loopVars == <<loop, iteration, times, log>>
meshVars == <<track_data, mesh, endurance_mesh, mesh_error>>
registryVars == <<channel_registry, parameter_registry, classes, lookup>>
channelVars == <<base_channels, channel_output>>
accumulatorVars == <<accumulator, voltage>>
callerVars == <<first_run, traction_calls, points>>
solverVars == <<lateral_limit, node_count, vehicle_model,
               nodeVars, solveVars, loopVars, lateral>>
componentVars == <<meshVars, registryVars, channelVars, accumulatorVars,
                   callerVars>>
simulationVars == <<lateral_limit, node_count, vehicle_model, nodeVars,
                    solveVars, loopVars, lateral, callerVars>>
vars == <<lateral_limit, node_count, vehicle_model, nodeVars, solveVars,
          loopVars, lateral, componentVars>>

\* ------------------------------------------------------------ SolutionNode

\* track_node.length, in metres
length(n) == 1

\* mutant: the anchor flag is ignored
set_initial_velocity_unchecked(n, velocity) ==
    [initial_velocity EXCEPT ![n] = velocity]

\* mutant: the anchor test is inverted
set_initial_velocity_inverted(n, velocity) ==
    IF initial_velocity_anchored[n]
    THEN [initial_velocity EXCEPT ![n] = velocity]
    ELSE initial_velocity

\* SolutionNode.set_initial_velocity: the new initial_velocity function
set_initial_velocity(n, velocity) ==
    IF initial_velocity_anchored[n]
    THEN initial_velocity
    ELSE [initial_velocity EXCEPT ![n] = velocity]

\* SolutionNode.set_final_velocity applied to a final_velocity function fv
set_final_velocity(fv, n, velocity) ==
    IF final_velocity_anchored[n] THEN fv ELSE [fv EXCEPT ![n] = velocity]

\* ---------------------------------------------------------------- Solution

RECURSIVE SortedByIndex(_, _)
\* mutant: the indices in ascending order, whatever the velocities
SortedByIndex(mv, S) ==
    IF S = {} THEN <<>>
    ELSE LET first == CHOOSE n \in S : \A m \in S : n <= m
         IN <<first>> \o SortedByIndex(mv, S \ {first})

RECURSIVE SortedByVelocity(_, _)
\* sorted(zip(velocities, indices)): ascending (maximum_velocity, index)
SortedByVelocity(mv, S) ==
    IF S = {} THEN <<>>
    ELSE LET first == CHOOSE n \in S : \A m \in S :
                 \/ mv[n] < mv[m]
                 \/ /\ mv[n] = mv[m]
                    /\ n <= m
         IN <<first>> \o SortedByVelocity(mv, S \ {first})

\* Solution.get_sorted_apex_indices, for maximum velocities mv and apex
\* flags a.  (zip(*sorted(...)) of an empty list raises ValueError; node 0
\* is flagged whenever the solver calls this: set_apexes flags it and no
\* forward pass clears the flag of the node it starts from.)
get_sorted_apex_indices(mv, a) == SortedByVelocity(mv, {n \in Nodes : a[n]})

\* --------------------------------------------------------------- construction

NoStep == [pass |-> "none", node |-> 0, traction_limited_velocity |-> 0,
           caught |-> "none"]

\* create_new_solution: dataclass defaults of SolutionNode
NewSolution ==
    /\ maximum_velocity = [n \in Nodes |-> 0]
    /\ initial_velocity = [n \in Nodes |-> 0]
    /\ final_velocity = [n \in Nodes |-> 0]
    /\ apex = [n \in Nodes |-> FALSE]
    /\ initial_velocity_anchored = [n \in Nodes |-> FALSE]
    /\ final_velocity_anchored = [n \in Nodes |-> FALSE]
    /\ state_of_charge = [n \in Nodes |-> FULL_STATE_OF_CHARGE]
    /\ accumulator_power = [n \in Nodes |-> 0]

NotSolving ==
    /\ pc = "start"
    /\ worklist = <<>>
    /\ index = 0
    /\ apex_indices = {}
    /\ acceleration = Value(0)
    /\ deceleration = Value(0)
    /\ step = NoStep
    /\ error = "none"
    /\ iteration = 0
    /\ times = <<>>
    /\ log = {}

\* no call of lateral_vehicle_model in progress
NoLateralCall == [pc |-> "idle", curvature |-> 0, banking |-> 0, i |-> 0,
                  v |-> 0, error |-> "none"]

\* no track data, no mesh
NoData == [position |-> <<>>, value |-> <<>>]
NoTrack == [total_length |-> 0, resolution |-> 0, curvature |-> 0,
            rounding |-> "exact", grip_factor |-> NoData, sector |-> NoData]
NoMesh == [scale |-> 1, nodes |-> <<>>]

\* no mesh is generated
NoMeshing ==
    /\ track_data = NoTrack
    /\ mesh = NoMesh
    /\ endurance_mesh = NoMesh
    /\ mesh_error = "none"

\* _REGISTRY = {}: a dictionary without keys
EmptyRegistry == [name \in {} |-> 0]
NoLookup == [registry |-> "none", name |-> "", error |-> "none",
             kind |-> "none", class |-> 0]

\* no class is defined, no name looked up
NoRegistries ==
    /\ channel_registry = EmptyRegistry
    /\ parameter_registry = EmptyRegistry
    /\ classes = 0
    /\ lookup = NoLookup

NoChannel == [function |-> "none", error |-> "none", values |-> <<>>]

\* no channel is evaluated
NoChannels ==
    /\ base_channels = <<>>
    /\ channel_output = NoChannel

NoVoltage == [of |-> "none", state_of_charge |-> 0, error |-> "none",
              value |-> 0]

\* no accumulator is in use
NoAccumulator ==
    /\ accumulator = [charge_voltage |-> 0, discharge_voltage |-> 0,
                      cells_in_series |-> 0]
    /\ voltage = NoVoltage

NoRun == [maximum_velocity |-> <<>>, initial_velocity |-> <<>>,
          final_velocity |-> <<>>, apex |-> <<>>]

\* solve has not been called a second time, and no traction limit or
\* points function has been called on its own
NoCalls ==
    /\ first_run = NoRun
    /\ traction_calls = <<>>
    /\ points = <<>>

\* the components outside the solvers are not in use
NoComponents ==
    /\ NoCalls
    /\ NoMeshing
    /\ NoRegistries
    /\ NoChannels
    /\ NoAccumulator

\* the lateral limits of a mesh of count nodes
Meshes(count) ==
    {limit \in [Nodes -> LateralLimits \cup {0}] :
         \A n \in Nodes : limit[n] = 0 <=> n >= count}

Init ==
    /\ node_count \in 1 .. NumNodes
    /\ lateral_limit \in Meshes(node_count)
    /\ vehicle_model = [accelerations |-> Outcomes,
                        decelerations |-> Outcomes,
                        powers |-> Powers]
    /\ NewSolution
    /\ NotSolving
    /\ loop = "none"
    /\ lateral = NoLateralCall
    /\ NoComponents

\* ------------------------------------------------- quasi_steady_state.py

\* solve_maximum_velocities: node.maximum_velocity = lateral_vehicle_model(
\* node.state_variables, node.track_node), for every node
solve_maximum_velocities ==
    [n \in Nodes |-> IF n < node_count THEN lateral_limit[n]
                     ELSE maximum_velocity[n]]

RECURSIVE PlateauEnd(_, _, _)
\* scipy.signal.find_peaks, inner loop: the first index ahead of i whose
\* value differs from that of i, at most the last index
PlateauEnd(mv, i, ahead) ==
    IF ahead < node_count - 1 /\ mv[ahead] = mv[i]
    THEN PlateauEnd(mv, i, ahead + 1)
    ELSE ahead

RECURSIVE find_peaks_strict(_, _)
\* mutant: only strict local minima, no plateaus
find_peaks_strict(mv, i) ==
    IF i >= node_count - 1 THEN {}
    ELSE IF mv[i - 1] > mv[i] /\ mv[i + 1] > mv[i]
         THEN {i} \cup find_peaks_strict(mv, i + 1)
         ELSE find_peaks_strict(mv, i + 1)

RECURSIVE find_peaks(_, _)
\* scipy.signal.find_peaks(x) for x = [-mv[n]], scanning from index i: the
\* midpoints (rounded down) of the runs of equal values whose two
\* neighbours are both lower in x, that is higher in mv
find_peaks(mv, i) ==
    IF i >= node_count - 1 THEN {}
    ELSE IF mv[i - 1] > mv[i]
         THEN LET ahead == PlateauEnd(mv, i, i + 1)
              IN IF mv[ahead] > mv[i]
                 THEN {(i + ahead - 1) \div 2} \cup find_peaks(mv, ahead + 1)
                 ELSE find_peaks(mv, i + 1)
         ELSE find_peaks(mv, i + 1)

\* find_apexes: the peaks of the negated maximum velocities, plus the first
\* and the last node
find_apexes(mv) == find_peaks(mv, 1) \cup {0, node_count - 1}

\* mutant: a solution that has flags left keeps them as they are
set_apexes_once(apexes) ==
    IF \E n \in Nodes : apex[n] THEN apex
    ELSE [n \in Nodes |-> n \in apexes]

\* Solution.set_apexes: add_apex on every listed node; no flag is cleared
set_apexes(apexes) == [n \in Nodes |-> apex[n] \/ n \in apexes]

\* mutant: u^2 + as, the factor 2 of the kinematic equation is lost
calculate_next_velocity_halved(velocity, a, displacement) ==
    LET term == velocity + a * displacement
    IN IF term < 0 THEN ValueError ELSE Value(term)

\* calculate_next_velocity: sqrt(u^2 + 2as), or ValueError (math domain
\* error) when the radicand is negative
calculate_next_velocity(velocity, a, displacement) ==
    LET term == velocity + 2 * a * displacement
    IN IF term < 0 THEN ValueError ELSE Value(term)

\* mutant: u^2 + 4ds, the deceleration counted twice
calculate_previous_velocity_doubled(velocity, d, displacement) ==
    LET term == velocity + 4 * d * displacement
    IN IF term <= 0 THEN 0 ELSE term

\* calculate_previous_velocity: 0 when the radicand is <= 0
calculate_previous_velocity(velocity, d, displacement) ==
    LET term == velocity + 2 * d * displacement
    IN IF term <= 0 THEN 0 ELSE term

\* mutant: the fall-back is the maximum velocity of the node
traction_limit_velocity_maximum(n) ==
    IF acceleration.raised
    THEN [velocity |-> maximum_velocity[n], caught |-> "vehicle_model"]
    ELSE LET next == calculate_next_velocity(
                         initial_velocity[n], acceleration.value, length(n))
         IN IF next.raised
            THEN [velocity |-> maximum_velocity[n], caught |-> "sqrt"]
            ELSE [velocity |-> next.value, caught |-> "none"]

\* traction_limit_velocity: the try block, and `except ValueError: return
\* node_solution.initial_velocity`
traction_limit_velocity(n) ==
    IF acceleration.raised
    THEN [velocity |-> initial_velocity[n], caught |-> "vehicle_model"]
    ELSE LET next == calculate_next_velocity(
                         initial_velocity[n], acceleration.value, length(n))
         IN IF next.raised
            THEN [velocity |-> initial_velocity[n], caught |-> "sqrt"]
            ELSE [velocity |-> next.value, caught |-> "none"]

\* traction_limit_velocity_braking: the try block, and `except ValueError:
\* return node_solution.final_velocity`
traction_limit_velocity_braking(n) ==
    IF deceleration.raised
    THEN [velocity |-> final_velocity[n], caught |-> "vehicle_model"]
    ELSE [velocity |-> calculate_previous_velocity(
                           final_velocity[n], deceleration.value, length(n)),
          caught |-> "none"]

\* mutant: the traction limit is not capped by the maximum velocity
forward_final_velocity_uncapped(limit, n) == limit

\* propagate_forward, line 126:
\* final_velocity = min(traction_limited_velocity, node.maximum_velocity)
forward_final_velocity(limit, n) == Min(limit, maximum_velocity[n])

\* mutant: the apex ahead is also passed at exactly its maximum velocity
below_next_maximum_or_at(velocity, n) == velocity <= maximum_velocity[n + 1]

\* propagate_forward, line 134: final_velocity < node.next.maximum_velocity
below_next_maximum(velocity, n) == velocity < maximum_velocity[n + 1]

\* propagate_backward, lines 170-172:
\* initial_velocity = min(traction_limit_velocity, node.previous.final_velocity)
backward_initial_velocity(limit, n) == Min(limit, final_velocity[n - 1])

\* QuasiSteadyStateSolver.solve, lines 28-40: anchor node 0, solve the
\* maximum velocities, flag the apexes, and list them for the forward loop.
\* The vehicle model's acceleration and deceleration outcomes of this solve
\* are drawn here.
Solve ==
    /\ pc = "start"
    /\ initial_velocity' = set_initial_velocity(0, 0)
    /\ initial_velocity_anchored' = [initial_velocity_anchored EXCEPT ![0] = TRUE]
    /\ maximum_velocity' = solve_maximum_velocities
    /\ apex_indices' = find_apexes(maximum_velocity')
    /\ apex' = set_apexes(apex_indices')
    /\ worklist' = get_sorted_apex_indices(maximum_velocity', apex')
    /\ \E a \in vehicle_model.accelerations : acceleration' = a
    /\ \E d \in vehicle_model.decelerations : deceleration' = d
    /\ pc' = "forward"
    /\ UNCHANGED <<componentVars, lateral_limit, node_count, vehicle_model, final_velocity,
                   final_velocity_anchored, state_of_charge,
                   accumulator_power, index, step, error, loopVars, lateral>>

\* solve, lines 39-44 and propagate_forward, lines 119-120: take the next
\* apex of the list; if it is still an apex, start a forward pass from it
ForwardNext ==
    /\ pc = "forward"
    /\ worklist # <<>>
    /\ worklist' = Tail(worklist)
    /\ IF apex[Head(worklist)]
       THEN /\ initial_velocity' = set_initial_velocity(
                    Head(worklist), maximum_velocity[Head(worklist)])
            /\ index' = Head(worklist)
            /\ pc' = "propagate_forward"
       ELSE UNCHANGED <<initial_velocity, index, pc>>
    /\ UNCHANGED <<componentVars, lateral_limit, node_count, vehicle_model, maximum_velocity,
                   final_velocity, apex, initial_velocity_anchored,
                   final_velocity_anchored, state_of_charge,
                   accumulator_power, apex_indices, acceleration,
                   deceleration, step, error, loopVars, lateral>>

\* propagate_forward, lines 122-137: one iteration of the loop, at node index
ForwardStep ==
    /\ pc = "propagate_forward"
    /\ LET limit == traction_limit_velocity(index)
           velocity == forward_final_velocity(limit.velocity, index)
           last == index = node_count - 1
           stop == /\ ~last
                   /\ apex[index + 1]
                   /\ ~below_next_maximum(velocity, index)
       IN /\ step' = [pass |-> "forward", node |-> index,
                      traction_limited_velocity |-> limit.velocity,
                      caught |-> limit.caught]
          /\ final_velocity' = set_final_velocity(final_velocity, index, velocity)
          /\ initial_velocity' =
                 IF last THEN initial_velocity
                 ELSE set_initial_velocity(index + 1, velocity)
          /\ apex' =
                 IF ~last /\ apex[index + 1] /\ below_next_maximum(velocity, index)
                 THEN [apex EXCEPT ![index + 1] = FALSE]
                 ELSE apex
          /\ IF last \/ stop
             THEN pc' = "forward" /\ index' = index
             ELSE pc' = pc /\ index' = index + 1
    /\ UNCHANGED <<componentVars, lateral_limit, node_count, vehicle_model, maximum_velocity,
                   initial_velocity_anchored, final_velocity_anchored,
                   state_of_charge, accumulator_power, worklist,
                   apex_indices, acceleration, deceleration, error, loopVars, lateral>>

\* solve, lines 46-48: the forward loop is over; list the remaining apexes
\* for the backward loop
ForwardDone ==
    /\ pc = "forward"
    /\ worklist = <<>>
    /\ worklist' = get_sorted_apex_indices(maximum_velocity, apex)
    /\ pc' = "backward"
    /\ UNCHANGED <<componentVars, lateral_limit, node_count, vehicle_model, nodeVars, index,
                   apex_indices, acceleration, deceleration, step, error,
                   loopVars, lateral>>

\* solve, lines 47-52: take the next apex of the list; if it is still an
\* apex, start a backward pass from it
BackwardNext ==
    /\ pc = "backward"
    /\ worklist # <<>>
    /\ worklist' = Tail(worklist)
    /\ IF apex[Head(worklist)]
       THEN index' = Head(worklist) /\ pc' = "propagate_backward"
       ELSE UNCHANGED <<index, pc>>
    /\ UNCHANGED <<componentVars, lateral_limit, node_count, vehicle_model, nodeVars, apex_indices,
                   acceleration, deceleration, step, error, loopVars, lateral>>

\* propagate_backward, lines 157-175: one iteration of the loop, at node index
BackwardStep ==
    /\ pc = "propagate_backward"
    /\ IF index = 0 \/ final_velocity[index - 1] < final_velocity[index]
       THEN /\ pc' = "backward"
            /\ UNCHANGED <<initial_velocity, final_velocity, apex, index, step>>
       ELSE LET limit == traction_limit_velocity_braking(index)
                velocity == backward_initial_velocity(limit.velocity, index)
            IN /\ step' = [pass |-> "backward", node |-> index,
                           traction_limited_velocity |-> limit.velocity,
                           caught |-> limit.caught]
               /\ apex' = [apex EXCEPT ![index - 1] = FALSE]
               /\ initial_velocity' = set_initial_velocity(index, velocity)
               /\ final_velocity' =
                      set_final_velocity(final_velocity, index - 1, velocity)
               /\ index' = index - 1
               /\ pc' = pc
    /\ UNCHANGED <<componentVars, lateral_limit, node_count, vehicle_model, maximum_velocity,
                   initial_velocity_anchored, final_velocity_anchored,
                   state_of_charge, accumulator_power, worklist,
                   apex_indices, acceleration, deceleration, error, loopVars, lateral>>

\* solve, line 54: the backward loop is over
BackwardDone ==
    /\ pc = "backward"
    /\ worklist = <<>>
    /\ pc' = "resolve"
    /\ UNCHANGED <<componentVars, lateral_limit, node_count, vehicle_model, nodeVars, worklist, index,
                   apex_indices, acceleration, deceleration, step, error,
                   loopVars, lateral>>

RECURSIVE SqrtBetween(_, _, _)
\* the largest r in lo..hi with r*r <= x
SqrtBetween(x, lo, hi) ==
    IF lo >= hi THEN lo
    ELSE LET mid == (lo + hi + 1) \div 2
         IN IF mid * mid <= x
            THEN SqrtBetween(x, mid, hi)
            ELSE SqrtBetween(x, lo, mid - 1)

\* the velocity, in 1e-2 m/s, whose square is stored as squared
Velocity(squared) ==
    SqrtBetween(
        squared * VelocityUnitsPerMetrePerSecond * VelocityUnitsPerMetrePerSecond,
        0, (squared + 1) * VelocityUnitsPerMetrePerSecond)

\* SolutionNode.average_velocity, doubled: initial_velocity + final_velocity
twice_average_velocity(iv, fv, n) == Velocity(iv[n]) + Velocity(fv[n])

\* SolutionNode.time: length / average_velocity, in 1e-4 s; ZeroDivisionError
\* when the average velocity is 0
time(iv, fv, n) ==
    IF twice_average_velocity(iv, fv, n) = 0
    THEN [raised |-> TRUE, value |-> 0]
    ELSE Value((2 * length(n) * VelocityUnitsPerMetrePerSecond * TimeUnitsPerSecond)
               \div twice_average_velocity(iv, fv, n))

\* SolutionNode.energy_used: vehicle_state.accumulator_power * time
energy_used(iv, fv, power, n) ==
    IF time(iv, fv, n).raised
    THEN [raised |-> TRUE, value |-> 0]
    ELSE Value(power[n] * time(iv, fv, n).value)

\* Powertrain.update_state_of_charge: the charge left after energy_used is
\* drawn, never below 0
update_state_of_charge(soc, energy) ==
    Max(0, Min(FULL_STATE_OF_CHARGE, soc - energy \div EnergyPerChargeUnit))

RECURSIVE recalculate_from(_, _, _, _, _)
\* recalculate_state_variables, the loop from index i on: every node's state
\* of charge from its predecessor's, already updated, and the predecessor's
\* energy_used; the loop ends where energy_used raises
recalculate_from(soc, iv, fv, power, i) ==
    IF i > node_count - 1 THEN [state_of_charge |-> soc, error |-> "none"]
    ELSE IF energy_used(iv, fv, power, i - 1).raised
         THEN [state_of_charge |-> soc, error |-> "ZeroDivisionError"]
         ELSE recalculate_from(
                  [soc EXCEPT ![i] = update_state_of_charge(
                       soc[i - 1], energy_used(iv, fv, power, i - 1).value)],
                  iv, fv, power, i + 1)

RECURSIVE recalculate_stale_from(_, _, _, _, _, _)
\* mutant: every node's state of charge from its predecessor's as it was
\* before the pass
recalculate_stale_from(old, soc, iv, fv, power, i) ==
    IF i > node_count - 1 THEN [state_of_charge |-> soc, error |-> "none"]
    ELSE IF energy_used(iv, fv, power, i - 1).raised
         THEN [state_of_charge |-> soc, error |-> "ZeroDivisionError"]
         ELSE recalculate_stale_from(
                  old,
                  [soc EXCEPT ![i] = update_state_of_charge(
                       old[i - 1], energy_used(iv, fv, power, i - 1).value)],
                  iv, fv, power, i + 1)

recalculate_state_variables_stale(soc, iv, fv, power) ==
    recalculate_stale_from(soc, soc, iv, fv, power, 1)

\* recalculate_state_variables
recalculate_state_variables(soc, iv, fv, power) ==
    recalculate_from(soc, iv, fv, power, 1)

\* solve, lines 54-60: evaluate_full_vehicle_state stores every node's
\* vehicle state (the accumulator power the vehicle model resolves), then
\* recalculate_state_variables; the solve returns, or raises
Resolve ==
    /\ pc = "resolve"
    /\ \E p \in vehicle_model.powers :
           accumulator_power' = [n \in Nodes |-> p]
    /\ LET result == recalculate_state_variables(
                         state_of_charge, initial_velocity, final_velocity,
                         accumulator_power')
       IN /\ state_of_charge' = result.state_of_charge
          /\ error' = result.error
          /\ pc' = IF result.error = "none" THEN "returned" ELSE "raised"
    /\ UNCHANGED <<componentVars, lateral_limit, node_count, vehicle_model, maximum_velocity,
                   initial_velocity, final_velocity, apex,
                   initial_velocity_anchored, final_velocity_anchored,
                   worklist, index, apex_indices, acceleration, deceleration,
                   step, loopVars, lateral>>

Next ==
    \/ Solve
    \/ ForwardNext
    \/ ForwardStep
    \/ ForwardDone
    \/ BackwardNext
    \/ BackwardStep
    \/ BackwardDone
    \/ Resolve

Spec == Init /\ [][Next]_vars

\* ------------------------------------------------------ quasi_transient.py

RECURSIVE total_time_from(_, _, _)
\* Solution.total_time: sum(node.time for node in self.nodes), from node n
\* on; ZeroDivisionError when a node's average velocity is 0
total_time_from(iv, fv, n) ==
    IF n > node_count - 1 THEN Value(0)
    ELSE IF time(iv, fv, n).raised \/ total_time_from(iv, fv, n + 1).raised
         THEN [raised |-> TRUE, value |-> 0]
         ELSE Value(time(iv, fv, n).value + total_time_from(iv, fv, n + 1).value)

total_time == total_time_from(initial_velocity, final_velocity, 0)

\* times.append(t), keeping the last two entries
appended(ts, t) == IF Len(ts) < 2 THEN Append(ts, t) ELSE <<ts[2], t>>

\* _convergence_achieved(times, threshold)
convergence_achieved(ts, threshold) ==
    IF Len(ts) < 2 THEN FALSE
    ELSE Abs(ts[Len(ts)] - ts[Len(ts) - 1]) < threshold

\* QuasiTransientSolver.solve, lines 27-35, after _solve_next_iteration has
\* returned: record the total time, log the iteration, and either break
\* (converged), go round the loop again, or leave it when range(100) is
\* exhausted; the solution is then returned
Iterate ==
    /\ loop = "iterating"
    /\ pc = "returned"
    /\ IF total_time.raised
       THEN /\ error' = "ZeroDivisionError"
            /\ loop' = "raised"
            /\ UNCHANGED <<times, log, iteration, pc>>
       ELSE /\ times' = appended(times, total_time.value)
            /\ error' = error
            /\ IF convergence_achieved(times', CONVERGENCE_TOLERANCE)
               THEN /\ log' = log \cup {"Iteration", "Converged"}
                    /\ loop' = "returned"
                    /\ UNCHANGED <<iteration, pc>>
               ELSE /\ log' = log \cup {"Iteration"}
                    /\ IF iteration + 1 < MAXIMUM_TRANSIENT_ITERATIONS
                       THEN /\ iteration' = iteration + 1
                            /\ pc' = "start"
                            /\ loop' = loop
                       ELSE /\ loop' = "returned"
                            /\ UNCHANGED <<iteration, pc>>
    /\ UNCHANGED <<componentVars, lateral_limit, node_count, vehicle_model, nodeVars, worklist, index,
                   apex_indices, acceleration, deceleration, step, lateral>>

\* Meshes of the quasi-transient runs: a single slow corner in the middle of
\* the track, a constant limit, and a limit falling towards the end
TransientMeshes ==
    { [n \in Nodes |-> IF n = NumNodes \div 2 THEN 1 ELSE MaxVel * MaxVel],
      [n \in Nodes |-> MaxVel * MaxVel],
      [n \in Nodes |-> IF n < NumNodes \div 2 THEN MaxVel * MaxVel ELSE 1] }

\* The vehicle model of the quasi-transient runs: its acceleration varies
\* with the state variables from one solve to the next, or fails
InitTransient ==
    /\ node_count = NumNodes
    /\ lateral_limit \in TransientMeshes
    /\ vehicle_model = [accelerations |-> {ValueError, Value(1), Value(MaxAcc)},
                        decelerations |-> {Value(1), Value(MaxAcc)},
                        powers |-> {1}]
    /\ NewSolution
    /\ NotSolving
    /\ loop = "iterating"
    /\ lateral = NoLateralCall
    /\ NoComponents

NextTransient ==
    \/ Next
    \/ Iterate

SpecTransient == InitTransient /\ [][NextTransient]_vars

\* ------------------------------------------- solve on a returned Solution

\* Vehicle models that answer every call of one run and of the next alike,
\* and draw no energy, so that the state variables stay as they are
RepeatableModels ==
    {[accelerations |-> {a}, decelerations |-> {d}, powers |-> {0}] :
         a \in Outcomes, d \in Outcomes}

InitRerun ==
    /\ node_count \in 1 .. NumNodes
    /\ lateral_limit \in Meshes(node_count)
    /\ vehicle_model \in RepeatableModels
    /\ NewSolution
    /\ NotSolving
    /\ loop = "none"
    /\ lateral = NoLateralCall
    /\ NoComponents

\* _solve_next_iteration, line 50: QuasiSteadyStateSolver().solve is called
\* on the Solution the previous call returned
SolveAgain ==
    /\ pc = "returned"
    /\ first_run = NoRun
    /\ first_run' = [maximum_velocity |-> maximum_velocity,
                     initial_velocity |-> initial_velocity,
                     final_velocity |-> final_velocity,
                     apex |-> apex]
    /\ pc' = "start"
    /\ UNCHANGED <<lateral_limit, node_count, vehicle_model, nodeVars,
                   worklist, index, apex_indices, acceleration, deceleration,
                   step, error, loopVars, lateral, meshVars, registryVars,
                   channelVars, accumulatorVars, traction_calls, points>>

NextRerun ==
    \/ Next
    \/ SolveAgain

SpecRerun == InitRerun /\ [][NextRerun]_vars

\* ------------------------------------- traction_limit_velocity, called alone

\* the accelerations the vehicle model may answer in a forward step
TractionAccelerations == (0 - MaxAcc) .. MaxAcc
TractionOutcomes == {ValueError} \cup {Value(a) : a \in TractionAccelerations}

\* a one-node solution whose node has some initial velocity (squared), and
\* the vehicle model's answer to the first call
InitTraction ==
    /\ node_count = 1
    /\ lateral_limit \in Meshes(node_count)
    /\ vehicle_model = [accelerations |-> TractionOutcomes,
                        decelerations |-> {Value(0)},
                        powers |-> {0}]
    /\ maximum_velocity = [n \in Nodes |-> 0]
    /\ \E u \in 0 .. (MaxVel * MaxVel) :
           initial_velocity = [n \in Nodes |-> IF n = 0 THEN u ELSE 0]
    /\ final_velocity = [n \in Nodes |-> 0]
    /\ apex = [n \in Nodes |-> FALSE]
    /\ initial_velocity_anchored = [n \in Nodes |-> FALSE]
    /\ final_velocity_anchored = [n \in Nodes |-> FALSE]
    /\ state_of_charge = [n \in Nodes |-> FULL_STATE_OF_CHARGE]
    /\ accumulator_power = [n \in Nodes |-> 0]
    /\ pc = "traction_limit_velocity"
    /\ worklist = <<>>
    /\ index = 0
    /\ apex_indices = {}
    /\ acceleration \in vehicle_model.accelerations
    /\ deceleration = Value(0)
    /\ step = NoStep
    /\ error = "none"
    /\ iteration = 0
    /\ times = <<>>
    /\ log = {}
    /\ loop = "none"
    /\ lateral = NoLateralCall
    /\ NoComponents

\* traction_limit_velocity on node 0 with the vehicle model's answer; the
\* call and the one before it are kept, and the vehicle model answers the
\* next call
TractionLimit ==
    /\ pc = "traction_limit_velocity"
    /\ traction_calls' =
           <<[acceleration |-> acceleration,
              velocity |-> traction_limit_velocity(0).velocity]>>
           \o SubSeq(traction_calls, 1, Min(1, Len(traction_calls)))
    /\ acceleration' \in vehicle_model.accelerations
    /\ UNCHANGED <<lateral_limit, node_count, vehicle_model, nodeVars, pc,
                   worklist, index, apex_indices, deceleration, step, error,
                   loopVars, lateral, meshVars, registryVars, channelVars,
                   accumulatorVars, first_run, points>>

NextTraction == TractionLimit

SpecTraction == InitTraction /\ [][NextTraction]_vars

\* ---------------------------------------------------------- point_mass.py
\* lateral_vehicle_model works on velocities (not squares), in 1e-3 m/s, so
\* that the margin of 0.001 m/s is one unit; forces are in newtons and the
\* required force is compared in 1e-6 N.

MillimetresPerMetre == 10 * 100
SquareMillimetresPerSquareMetre == MillimetresPerMetre * MillimetresPerMetre

\* node.curvature, in 1/m
Curvatures == {-1, 0, 1}
\* the sign of node.banking
Bankings == {-1, 0, 1}
\* 2 * (fy_front + fy_rear): what the tyre model can return for the lateral
\* force of the car, in newtons; or it raises ValueError
TyreOutcomes == {ValueError} \cup {Value(f) : f \in {1, 4, 16}}

\* weight_y = -weight * sin(node.banking)
weight_y(banking) == -(BankedWeight * banking)

\* required_fy = abs(weight_y + total_mass * v**2 * curvature), in 1e-6 N
required_fy(call) ==
    Abs(weight_y(call.banking) * SquareMillimetresPerSquareMetre
        + TotalMass * call.v * call.v * call.curvature)

\* lines 46-59: available_fy, 0 when the tyre model raises ValueError
available_fy(outcome) == IF outcome.raised THEN 0 ELSE outcome.value

\* lines 62-63: v = sqrt(ay / abs(curvature)) - 0.001 with
\* ay = (available_fy + weight_y) / total_mass; ZeroDivisionError when the
\* curvature is 0, ValueError when the radicand is negative
next_lateral_velocity(call, available) ==
    LET force == available + weight_y(call.banking)
        radicand == (force * SquareMillimetresPerSquareMetre)
                    \div (TotalMass * Abs(call.curvature))
    IN IF call.curvature = 0 THEN [error |-> "ZeroDivisionError", v |-> call.v]
       ELSE IF force < 0 THEN [error |-> "ValueError", v |-> call.v]
       ELSE [error |-> "none", v |-> SqrtBetween(radicand, 0, Min(radicand, 40 * MillimetresPerMetre)) - 1]

\* lateral_vehicle_model, lines 27-28: v = vehicle.maximum_velocity, i = 0
lateral_vehicle_model(curvature, banking) ==
    [pc |-> "loop", curvature |-> curvature, banking |-> banking, i |-> 0,
     v |-> MaxVel * MillimetresPerMetre, error |-> "none"]

\* lateral_vehicle_model, lines 30-67: one iteration of the while loop, for
\* one outcome of the tyre model; the call returns on break and when i
\* reaches the limit.  AeroAttitude(velocity=v) is validated with
\* Field(ge=0) (aero.py:29) and raises ValidationError for v < 0.
LateralIterate ==
    /\ lateral.pc = "loop"
    /\ \E outcome \in TyreOutcomes :
        LET available == available_fy(outcome)
            next == next_lateral_velocity(lateral, available)
            i == lateral.i + 1
        IN lateral' =
            IF lateral.v < 0
            THEN [lateral EXCEPT !.i = i, !.pc = "raised",
                                 !.error = "ValidationError"]
            ELSE IF ~(available * SquareMillimetresPerSquareMetre
                        < required_fy(lateral))
            THEN [lateral EXCEPT !.i = i, !.pc = "returned"]
            ELSE IF next.error # "none"
            THEN [lateral EXCEPT !.i = i, !.pc = "raised",
                                 !.error = next.error]
            ELSE [lateral EXCEPT !.i = i, !.v = next.v,
                      !.pc = IF i < LATERAL_ITERATION_LIMIT
                             THEN "loop" ELSE "returned"]
    /\ UNCHANGED <<componentVars, lateral_limit, node_count, vehicle_model, nodeVars, solveVars, loopVars>>

InitLateral ==
    /\ node_count = NumNodes
    /\ lateral_limit = [n \in Nodes |-> MaxVel * MaxVel]
    /\ vehicle_model = [accelerations |-> Outcomes,
                        decelerations |-> Outcomes,
                        powers |-> Powers]
    /\ NewSolution
    /\ NotSolving
    /\ loop = "none"
    /\ \E curvature \in Curvatures, banking \in Bankings :
           lateral = lateral_vehicle_model(curvature, banking)
    /\ NoComponents

NextLateral == LateralIterate

SpecLateral == InitLateral /\ [][NextLateral]_vars

\* ------------------------------------------------------------ track/mesh.py
\* Lengths and positions are exact fractions of a metre: a mesh carries
\* their common denominator, scale.  Floating-point rounding in np.arange
\* is an input (track_data.rounding): the quotient track_length / spacing
\* is exactly node_count - 1, or rounds above it, which adds a last sample
\* just below ("short") or at ("flat") the end of the track.

MetresPerKilometre == 10 * 100

\* the solvers and the lateral vehicle model are not in use
NoSimulation ==
    /\ NoCalls
    /\ node_count = NumNodes
    /\ lateral_limit = [n \in Nodes |-> MaxVel * MaxVel]
    /\ vehicle_model = [accelerations |-> Outcomes,
                        decelerations |-> Outcomes,
                        powers |-> Powers]
    /\ NewSolution
    /\ NotSolving
    /\ loop = "none"
    /\ lateral = NoLateralCall

\* round(num / den) of Python: to the nearest integer, ties to the even one
round(num, den) ==
    LET q == num \div den
        r == num % den
    IN IF 2 * r < den THEN q
       ELSE IF 2 * r > den THEN q + 1
       ELSE IF q % 2 = 0 THEN q ELSE q + 1

\* math.ceil(num / den), for num >= 0 and den > 0
ceil(num, den) == (num + den - 1) \div den

\* utils.array.diff: the differences of consecutive elements
diff(x) == [i \in 1 .. (Len(x) - 1) |-> x[i + 1] - x[i]]

RECURSIVE sum_of_lengths(_, _)
\* sum(node.length for node in nodes), from the i-th node on
sum_of_lengths(nodes, i) ==
    IF i > Len(nodes) THEN 0
    ELSE nodes[i].length + sum_of_lengths(nodes, i + 1)

\* Mesh.track_length, in 1/scale m
track_length(m) == sum_of_lengths(m.nodes, 1)

\* the denominator of the positions sampled for node_count points:
\* spacing = track_length / (node_count - 1)
spacing_denominator(count) == IF count > 1 THEN 2 * (count - 1) ELSE 1

\* np.arange(0, track_length, spacing): ceil(track_length / spacing)
\* samples i * spacing, in 1/spacing_denominator m; none when the spacing
\* is negative (node_count = 0)
arange(track, count) ==
    LET scale == spacing_denominator(count)
        samples == IF count <= 0 THEN 0
                   ELSE IF count >= 4 /\ track.rounding # "exact" THEN count
                   ELSE count - 1
    IN [i \in 1 .. samples |->
            IF i <= count - 1 THEN (i - 1) * 2 * track.total_length
            ELSE IF track.rounding = "short"
                 THEN scale * track.total_length - 1
                 ELSE scale * track.total_length]

\* math.inf, in metres: beyond every position of a track
inf == MetresPerKilometre * MetresPerKilometre

RECURSIVE previous_index(_, _, _, _)
\* interp_previous, lines 34-35: while x[i] >= xp[pos + 1]: pos += 1, for
\* x in 1/scale m and xp in metres
previous_index(x, scale, xp, pos) ==
    IF x >= scale * xp[pos + 1]
    THEN previous_index(x, scale, xp, pos + 1)
    ELSE pos

RECURSIVE interpolated(_, _, _, _, _, _)
\* interp_previous, lines 33-36: the loop over x from its i-th element on,
\* pos carried from one element to the next
interpolated(x, scale, xp, yp, i, pos) ==
    IF i > Len(x) THEN <<>>
    ELSE LET here == previous_index(x[i], scale, xp, pos)
         IN <<yp[here]>> \o interpolated(x, scale, xp, yp, i + 1, here)

\* utils.array.interp_previous: the list returned, and the lists xp and yp
\* of the caller after xp.append(math.inf) and yp.append(yp[-1])
interp_previous(x, scale, xp, yp) ==
    LET appended_xp == Append(xp, inf)
        appended_yp == Append(yp, yp[Len(yp)])
    IN [y |-> interpolated(x, scale, appended_xp, appended_yp, 1, 1),
        xp |-> appended_xp,
        yp |-> appended_yp]

\* StartpointData.interpolate: interp_previous on self.position and
\* self.value themselves
interpolate(data, x, scale) ==
    LET result == interp_previous(x, scale, data.position, data.value)
    IN [y |-> result.y,
        data |-> [position |-> result.xp, value |-> result.yp]]

\* MeshGenerator.generate_mesh: the mesh, or the exception raised, and the
\* TrackData after the call.  The division of line 171 and the diff of line
\* 174 fail before the data are interpolated; the diff of
\* _calculate_inclination and the validation of TrackNode fail after.
generate_mesh(track) ==
    LET count == round(track.total_length, track.resolution)
        scale == spacing_denominator(count)
        position == arange(track, count)
        node_length == diff(position \o <<scale * track.total_length>>)
        grip_factor == interpolate(track.grip_factor, position, scale)
        sector == interpolate(track.sector, position, scale)
        interpolated_track == [track EXCEPT !.grip_factor = grip_factor.data,
                                            !.sector = sector.data]
    IN IF count = 1
       THEN [error |-> "ZeroDivisionError", mesh |-> NoMesh, track |-> track]
       ELSE IF Len(position) < 1
       THEN [error |-> "AssertionError", mesh |-> NoMesh, track |-> track]
       ELSE IF Len(position) < 2
       THEN [error |-> "AssertionError", mesh |-> NoMesh,
             track |-> interpolated_track]
       ELSE IF \E i \in 1 .. Len(node_length) : node_length[i] <= 0
       THEN [error |-> "ValidationError", mesh |-> NoMesh,
             track |-> interpolated_track]
       ELSE [error |-> "none",
             mesh |-> [scale |-> scale,
                       nodes |-> [i \in 1 .. Len(position) |->
                                     [position |-> position[i],
                                      length |-> node_length[i],
                                      curvature |-> track.curvature,
                                      grip_factor |-> grip_factor.y[i],
                                      sector |-> sector.y[i]]]],
             track |-> interpolated_track]

\* generate_endurance_mesh, line 105
number_of_laps(m) == ceil(ENDURANCE_TRACK_LENGTH * m.scale, track_length(m))

RECURSIVE renumber(_, _, _, _)
\* generate_endurance_mesh, lines 112-115: node.position = position;
\* position += node.length, for the nodes the list refers to, from its j-th
\* entry on.  objects are the TrackNode objects, references the list.
renumber(objects, references, j, position) ==
    IF j > Len(references) THEN objects
    ELSE renumber(
             [objects EXCEPT ![references[j]].position = position],
             references, j + 1,
             position + objects[references[j]].length)

\* mutant: the list is returned with the positions its nodes were copied with
renumbered_not(m, objects, references) ==
    [base |-> SubSeq(objects, 1, Len(m.nodes)),
     endurance |-> [j \in 1 .. Len(references) |-> objects[references[j]]]]

\* the base nodes and the endurance nodes once the list has been renumbered
renumbered(m, objects, references) ==
    LET after == renumber(objects, references, 1, 0)
    IN [base |-> SubSeq(after, 1, Len(m.nodes)),
        endurance |-> [j \in 1 .. Len(references) |-> after[references[j]]]]

\* mutant: the list holds the base nodes themselves, not copies of them
generate_endurance_mesh_aliased(m) ==
    renumbered(m, m.nodes,
               [j \in 1 .. (number_of_laps(m) * Len(m.nodes)) |->
                    ((j - 1) % Len(m.nodes)) + 1])

\* Mesh.generate_endurance_mesh: lines 107-110 append copy.copy(node) of
\* every base node, lap after lap, so the list refers to new objects
generate_endurance_mesh(m) ==
    renumbered(m,
               m.nodes \o [j \in 1 .. (number_of_laps(m) * Len(m.nodes)) |->
                               m.nodes[((j - 1) % Len(m.nodes)) + 1]],
               [j \in 1 .. (number_of_laps(m) * Len(m.nodes)) |->
                    Len(m.nodes) + j])

\* generator.generate_mesh(track_data), on the same TrackData at every call
\* and before the mesh is repeated for the endurance event
GenerateMesh ==
    /\ track_data # NoTrack
    /\ endurance_mesh = NoMesh
    /\ Len(track_data.grip_factor.position)
           < MaxStartpoints + MaxInterpolations
    /\ mesh' = generate_mesh(track_data).mesh
    /\ mesh_error' = generate_mesh(track_data).error
    /\ track_data' = generate_mesh(track_data).track
    /\ UNCHANGED <<endurance_mesh, simulationVars, registryVars,
                   channelVars, accumulatorVars>>

\* mesh.generate_endurance_mesh()
GenerateEnduranceMesh ==
    /\ mesh # NoMesh
    /\ endurance_mesh = NoMesh
    /\ mesh' = [mesh EXCEPT !.nodes = generate_endurance_mesh(mesh).base]
    /\ endurance_mesh' =
           [scale |-> mesh.scale,
            nodes |-> generate_endurance_mesh(mesh).endurance]
    /\ UNCHANGED <<track_data, mesh_error, simulationVars, registryVars,
                   channelVars, accumulatorVars>>

\* StartpointData as loaded: startpoints a kilometre apart from position 0
\* on, each with one of the values
Startpoints(values) ==
    UNION {{[position |-> [i \in 1 .. n |-> (i - 1) * MetresPerKilometre],
             value |-> v] : v \in [1 .. n -> values]} :
               n \in 1 .. MaxStartpoints}

\* the tracks given to the mesh generator: one segment of constant
\* curvature, grip factors 1 or 2, all startpoints in sector 1
Tracks ==
    [total_length : {k * MetresPerKilometre : k \in 1 .. MaxTrackLength},
     resolution : {k * MetresPerKilometre : k \in 1 .. MaxResolution},
     curvature : {0, 1},
     rounding : {"exact", "short", "flat"},
     grip_factor : Startpoints({1, 2}),
     sector : Startpoints({1})]

RECURSIVE position_of(_, _, _)
\* the position of the i-th of the nodes of the given lengths, the first
\* one at start
position_of(lengths, i, start) ==
    IF i <= 1 THEN start
    ELSE position_of(lengths, i - 1, start) + lengths[i - 1]

\* meshes constructed directly with Mesh(nodes, configuration): nodes of a
\* few kilometres, the first one at any position
GivenMeshes ==
    {[scale |-> 1,
      nodes |-> [i \in 1 .. Len(lengths) |->
                    [position |-> position_of(lengths, i, start),
                     length |-> lengths[i],
                     curvature |-> curvatures[i],
                     grip_factor |-> 1,
                     sector |-> 1]]] :
        start \in {0, 500},
        lengths \in UNION {[1 .. n -> {k * MetresPerKilometre :
                                          k \in {1, 2, 11, 23}}] :
                              n \in 1 .. MaxGivenNodes},
        curvatures \in [1 .. MaxGivenNodes -> {0, 1}]}

InitMesh ==
    /\ NoSimulation
    /\ NoRegistries
    /\ NoChannels
    /\ NoAccumulator
    /\ \/ track_data \in Tracks /\ mesh = NoMesh
       \/ track_data = NoTrack /\ mesh \in GivenMeshes
    /\ endurance_mesh = NoMesh
    /\ mesh_error = "none"

NextMesh ==
    \/ GenerateMesh
    \/ GenerateEnduranceMesh

SpecMesh == InitMesh /\ [][NextMesh]_vars

\* ------------------------- channels/channel.py and vehicle/parameters.py
\* A registry is a function from the names that are its keys to the classes
\* registered under them; a class is the number of its definition.

MaxClasses == 3
Names == {"Velocity", "Mass"}

\* cls._REGISTRY[name] = cls, in __init_subclass__
register(registry, name, cls) ==
    [key \in (DOMAIN registry) \cup {name} |->
         IF key = name THEN cls ELSE registry[key]]

\* mutant: an unknown name gives the class registered first, as
\* dict.get with a default does
get_channel_default(registry, channel_name) ==
    IF registry = EmptyRegistry THEN [error |-> "KeyError", kind |-> "none",
                                      class |-> 0]
    ELSE [error |-> "none", kind |-> "class",
          class |-> IF channel_name \in DOMAIN registry
                    THEN registry[channel_name]
                    ELSE registry[CHOOSE key \in DOMAIN registry : TRUE]]

\* Channel.get_channel: the class, or the KeyError raised
get_channel(registry, channel_name) ==
    IF channel_name \in DOMAIN registry
    THEN [error |-> "none", kind |-> "class", class |-> registry[channel_name]]
    ELSE [error |-> "KeyError", kind |-> "none", class |-> 0]

\* Parameter.get_parameter: a new instance of the class, or the KeyError
get_parameter(registry, parameter_name) ==
    IF parameter_name \in DOMAIN registry
    THEN [error |-> "none", kind |-> "instance",
          class |-> registry[parameter_name]]
    ELSE [error |-> "KeyError", kind |-> "none", class |-> 0]

\* class X(Channel, name=...): Channel.__init_subclass__
DefineChannel ==
    /\ classes < MaxClasses
    /\ \E name \in Names :
           channel_registry' = register(channel_registry, name, classes + 1)
    /\ classes' = classes + 1
    /\ UNCHANGED <<parameter_registry, lookup, simulationVars, meshVars,
                   channelVars, accumulatorVars>>

\* class X(Parameter, parameter_name=...): Parameter.__init_subclass__
DefineParameter ==
    /\ classes < MaxClasses
    /\ \E name \in Names :
           parameter_registry' =
               register(parameter_registry, name, classes + 1)
    /\ classes' = classes + 1
    /\ UNCHANGED <<channel_registry, lookup, simulationVars, meshVars,
                   channelVars, accumulatorVars>>

\* Channel.get_channel(channel_name)
GetChannel ==
    /\ \E name \in Names :
           lookup' = [registry |-> "channel", name |-> name,
                      error |-> get_channel(channel_registry, name).error,
                      kind |-> get_channel(channel_registry, name).kind,
                      class |-> get_channel(channel_registry, name).class]
    /\ UNCHANGED <<channel_registry, parameter_registry, classes,
                   simulationVars, meshVars, channelVars, accumulatorVars>>

\* Parameter.get_parameter(parameter_name)
GetParameter ==
    /\ \E name \in Names :
           lookup' = [registry |-> "parameter", name |-> name,
                      error |-> get_parameter(parameter_registry, name).error,
                      kind |-> get_parameter(parameter_registry, name).kind,
                      class |-> get_parameter(parameter_registry, name).class]
    /\ UNCHANGED <<channel_registry, parameter_registry, classes,
                   simulationVars, meshVars, channelVars, accumulatorVars>>

InitRegistry ==
    /\ NoSimulation
    /\ NoMeshing
    /\ NoRegistries
    /\ NoChannels
    /\ NoAccumulator

NextRegistry ==
    \/ DefineChannel
    \/ DefineParameter
    \/ GetChannel
    \/ GetParameter

SpecRegistry == InitRegistry /\ [][NextRegistry]_vars

\* ------------------------------------------------- channels/functions.py
\* A channel maps a solution to a list of values; here a channel is the
\* outcome of evaluating it on one solution: the list, or the exception
\* raised.  Values are exact fractions num / den.

MaxChannelLength == 3

RECURSIVE gcd(_, _)
gcd(a, b) == IF b = 0 THEN a ELSE gcd(b, a % b)

\* num / den in lowest terms, for den # 0
fraction(num, den) ==
    LET divisor == gcd(Abs(num), Abs(den))
        sign == IF den < 0 THEN -1 ELSE 1
    IN [num |-> (sign * num) \div divisor, den |-> (sign * den) \div divisor]

added(a, b) == fraction(a.num * b.den + b.num * a.den, a.den * b.den)
subtracted(a, b) == fraction(a.num * b.den - b.num * a.den, a.den * b.den)
multiplied(a, b) == fraction(a.num * b.num, a.den * b.den)
divided(a, b) == fraction(a.num * b.den, a.den * b.num)

\* a base channel: its values, read from the nodes of the solution
returned(values) == [error |-> "none", values |-> values]
raised(exception) == [error |-> exception, values |-> <<>>]

\* zip(values_1, values_2) stops at the shorter list
zipped(values_1, values_2) == 1 .. Min(Len(values_1), Len(values_2))

negate(c) ==
    IF c.error # "none" THEN c
    ELSE returned([i \in 1 .. Len(c.values) |->
                       subtracted(fraction(0, 1), c.values[i])])

add(channel_1, channel_2) ==
    IF channel_1.error # "none" THEN channel_1
    ELSE IF channel_2.error # "none" THEN channel_2
    ELSE returned([i \in zipped(channel_1.values, channel_2.values) |->
                       added(channel_1.values[i], channel_2.values[i])])

subtract(channel_1, channel_2) == add(channel_1, negate(channel_2))

product(channel_1, channel_2) ==
    IF channel_1.error # "none" THEN channel_1
    ELSE IF channel_2.error # "none" THEN channel_2
    ELSE returned([i \in zipped(channel_1.values, channel_2.values) |->
                       multiplied(channel_1.values[i], channel_2.values[i])])

divide(channel_1, channel_2) ==
    IF channel_1.error # "none" THEN channel_1
    ELSE IF channel_2.error # "none" THEN channel_2
    ELSE IF \E i \in zipped(channel_1.values, channel_2.values) :
                channel_2.values[i].num = 0
    THEN raised("ZeroDivisionError")
    ELSE returned([i \in zipped(channel_1.values, channel_2.values) |->
                       divided(channel_1.values[i], channel_2.values[i])])

\* true_diff has one value fewer than x; true_diff[0] of an empty list
\* raises IndexError
difference(c) ==
    IF c.error # "none" THEN c
    ELSE LET x == c.values
             true_diff == [i \in 1 .. (Len(x) - 1) |-> subtracted(x[i + 1], x[i])]
             average_diff ==
                 [i \in 1 .. (Len(true_diff) - 1) |->
                      multiplied(fraction(1, 2),
                            added(true_diff[i + 1], true_diff[i]))]
         IN IF Len(true_diff) = 0 THEN raised("IndexError")
            ELSE returned(<<true_diff[1]>> \o average_diff
                              \o <<true_diff[Len(true_diff)]>>)

RECURSIVE accumulate(_, _)
\* itertools.accumulate: the sum of the first i values
accumulate(values, i) ==
    IF i = 1 THEN values[1]
    ELSE added(accumulate(values, i - 1), values[i])

cumulative_sum(c) ==
    IF c.error # "none" THEN c
    ELSE returned([i \in 1 .. Len(c.values) |-> accumulate(c.values, i)])

derivative(c, wrt) == divide(difference(c), wrt)

integral(c, wrt) == cumulative_sum(product(c, wrt))

ChannelFunctions ==
    {"negate", "add", "subtract", "product", "divide", "difference",
     "cumulative_sum", "derivative", "integral"}

\* the channel the named function builds from the base channels
combined(function, channel_1, channel_2) ==
    CASE function = "negate" -> negate(channel_1)
      [] function = "add" -> add(channel_1, channel_2)
      [] function = "subtract" -> subtract(channel_1, channel_2)
      [] function = "product" -> product(channel_1, channel_2)
      [] function = "divide" -> divide(channel_1, channel_2)
      [] function = "difference" -> difference(channel_1)
      [] function = "cumulative_sum" -> cumulative_sum(channel_1)
      [] function = "derivative" -> derivative(channel_1, channel_2)
      [] function = "integral" -> integral(channel_1, channel_2)

\* function(...)(solution): evaluate a combined channel on the solution
EvaluateChannel ==
    /\ base_channels # <<>>
    /\ \E function \in ChannelFunctions :
           LET outcome == combined(function, returned(base_channels[1]),
                                   returned(base_channels[2]))
           IN channel_output' = [function |-> function,
                                 error |-> outcome.error,
                                 values |-> outcome.values]
    /\ UNCHANGED <<base_channels, simulationVars, meshVars, registryVars,
                   accumulatorVars>>

\* the values of two base channels over the n nodes of a solution
BaseChannels ==
    UNION {[1 .. 2 -> [1 .. n -> {fraction(v, 1) : v \in {-1, 0, 2}}]] :
               n \in 1 .. MaxChannelLength}

InitChannels ==
    /\ NoSimulation
    /\ NoMeshing
    /\ NoRegistries
    /\ NoAccumulator
    /\ base_channels \in BaseChannels
    /\ channel_output = NoChannel

NextChannels == EvaluateChannel

SpecChannels == InitChannels /\ [][NextChannels]_vars

\* ------------------------------------------ vehicle/powertrain/accumulator.py
\* A state of charge is a number of steps of 1 / SocSteps; a voltage
\* returned for it is in 1 / SocSteps of the unit of the cell voltages.

SocSteps == 4
MaxVoltage == 3
MaxCellsInSeries == 2

\* mutant: a full cell is rejected
Cell_get_voltage_below_full(self, soc) ==
    IF soc < 0 \/ soc >= SocSteps
    THEN [error |-> "ValueError", value |-> 0]
    ELSE [error |-> "none",
          value |-> self.charge_voltage * soc
                        + self.discharge_voltage * (SocSteps - soc)]

\* Cell.get_voltage: the voltage, or the ValueError raised
Cell_get_voltage(self, soc) ==
    IF soc < 0 \/ soc > SocSteps
    THEN [error |-> "ValueError", value |-> 0]
    ELSE [error |-> "none",
          value |-> self.charge_voltage * soc
                        + self.discharge_voltage * (SocSteps - soc)]

\* Accumulator.get_voltage: an exception of the cell passes through
Accumulator_get_voltage(self, soc) ==
    IF Cell_get_voltage(self, soc).error # "none"
    THEN Cell_get_voltage(self, soc)
    ELSE [error |-> "none",
          value |-> Cell_get_voltage(self, soc).value * self.cells_in_series]

\* Accumulator.maximum_voltage and Accumulator.minimum_voltage
maximum_voltage(self) == Accumulator_get_voltage(self, SocSteps)
minimum_voltage(self) == Accumulator_get_voltage(self, 0)

\* the states of charge asked for: from below 0 to above 1
StatesOfCharge == (-SocSteps) .. (2 * SocSteps)

\* accumulator.cell.get_voltage(state_of_charge)
CellGetVoltage ==
    /\ accumulator.cells_in_series > 0
    /\ \E soc \in StatesOfCharge :
           voltage' = [of |-> "cell", state_of_charge |-> soc,
                       error |-> Cell_get_voltage(accumulator, soc).error,
                       value |-> Cell_get_voltage(accumulator, soc).value]
    /\ UNCHANGED <<accumulator, simulationVars, meshVars, registryVars,
                   channelVars>>

\* accumulator.get_voltage(state_of_charge)
AccumulatorGetVoltage ==
    /\ accumulator.cells_in_series > 0
    /\ \E soc \in StatesOfCharge :
           voltage' =
               [of |-> "accumulator", state_of_charge |-> soc,
                error |-> Accumulator_get_voltage(accumulator, soc).error,
                value |-> Accumulator_get_voltage(accumulator, soc).value]
    /\ UNCHANGED <<accumulator, simulationVars, meshVars, registryVars,
                   channelVars>>

\* the cell voltages and the number of cells in series of an accumulator
Accumulators ==
    [charge_voltage : 0 .. MaxVoltage,
     discharge_voltage : 0 .. MaxVoltage,
     cells_in_series : 1 .. MaxCellsInSeries]

InitAccumulator ==
    /\ NoSimulation
    /\ NoMeshing
    /\ NoRegistries
    /\ NoChannels
    /\ accumulator \in Accumulators
    /\ voltage = NoVoltage

NextAccumulator ==
    \/ CellGetVoltage
    \/ AccumulatorGetVoltage

SpecAccumulator == InitAccumulator /\ [][NextAccumulator]_vars

\* ------------------------------------------- points/points_functions.py
\* Times are whole seconds; points are exact fractions num / den in lowest
\* terms with den > 0.

whole(n) == fraction(n, 1)

\* a <= b, for fractions with positive denominators
less_or_equal(a, b) == a.num * b.den <= b.num * a.den

\* score = maximum * ((t_max / t_team) ** power - 1)
\*                 / ((t_max / t_min) ** power - 1)
score(maximum, power, t_max, t_team, t_min) ==
    LET team_ratio == divided(t_max, whole(t_team))
        fastest_ratio == divided(t_max, whole(t_min))
        team_term == IF power = 2 THEN multiplied(team_ratio, team_ratio)
                     ELSE team_ratio
        fastest_term == IF power = 2
                        THEN multiplied(fastest_ratio, fastest_ratio)
                        ELSE fastest_ratio
    IN divided(multiplied(whole(maximum), subtracted(team_term, whole(1))),
               subtracted(fastest_term, whole(1)))

\* FSUKPointsFunctions.calculate_acceleration_points
calculate_acceleration_points(t_team, t_min) ==
    LET fastest == Min(t_team, t_min)
        t_max == multiplied(whole(fastest), fraction(15, 10))
        base_points == 5
    IN added(whole(base_points), score(65, 1, t_max, t_team, fastest))

\* FSUKPointsFunctions.calculate_skidpad_points
calculate_skidpad_points(t_team, t_min) ==
    LET fastest == Min(t_team, t_min)
        t_max == multiplied(whole(fastest), fraction(125, 100))
        base_points == 5
    IN added(whole(base_points), score(70, 2, t_max, t_team, fastest))

\* FSUKPointsFunctions.calculate_autocross_points
calculate_autocross_points(t_team, t_min) ==
    LET fastest == Min(t_team, t_min)
        t_max == multiplied(whole(fastest), fraction(145, 100))
        base_points == 5
    IN added(whole(base_points), score(95, 1, t_max, t_team, fastest))

\* FSUKPointsFunctions.calculate_endurance_points
calculate_endurance_points(t_team, t_min) ==
    LET fastest == Min(t_team, t_min)
        t_max == multiplied(whole(fastest), fraction(145, 100))
        base_points == 25
    IN added(whole(base_points), score(225, 1, t_max, t_team, fastest))

Events == {"acceleration", "skidpad", "autocross", "endurance"}

\* the points function of an event
calculate_points(event, t_team, t_min) ==
    CASE event = "acceleration" -> calculate_acceleration_points(t_team, t_min)
      [] event = "skidpad" -> calculate_skidpad_points(t_team, t_min)
      [] event = "autocross" -> calculate_autocross_points(t_team, t_min)
      [] event = "endurance" -> calculate_endurance_points(t_team, t_min)

\* one of the four functions is called with positive times; the call and
\* the one before it are kept
CalculatePoints ==
    /\ \E event \in Events, t_team \in 1 .. MaxTime, t_min \in 1 .. MaxTime :
           points' =
               <<[event |-> event, t_team |-> t_team, t_min |-> t_min,
                  value |-> calculate_points(event, t_team, t_min)]>>
               \o SubSeq(points, 1, Min(1, Len(points)))
    /\ UNCHANGED <<solverVars, meshVars, registryVars,
                   channelVars, accumulatorVars, first_run, traction_calls>>

InitPoints ==
    /\ NoSimulation
    /\ NoComponents

NextPoints == CalculatePoints

SpecPoints == InitPoints /\ [][NextPoints]_vars

\* ================================================================ properties

\* the nodes of the mesh
MeshNodes == 0 .. (node_count - 1)

\* the forward and backward passes of the current solve are over
Propagated == pc \in {"resolve", "returned", "raised"}

\* the forward passes of the current solve are over
ForwardPropagated ==
    pc \in {"backward", "propagate_backward", "resolve", "returned", "raised"}

\* the vehicle model's limits of the current solve are non-negative numbers
NonNegativeLimits ==
    /\ ~acceleration.raised /\ acceleration.value >= 0
    /\ ~deceleration.raised /\ deceleration.value >= 0

\* C1: once the forward and backward passes are over, no node's
\* initial_velocity exceeds its own maximum_velocity, for every maximum
\* velocity profile and every non-negative acceleration and deceleration
\* limit.  (Squares differ by at least 1 (m/s)^2 when they differ, far more
\* than the tolerance of 1e-6.)
C1_InitialWithinMaximum ==
    (Propagated /\ NonNegativeLimits) =>
        \A n \in MeshNodes : initial_velocity[n] <= maximum_velocity[n]

\* C2: once the forward passes are over, and until the solve has returned,
\* no node's final_velocity exceeds its own maximum_velocity.
C2_FinalWithinMaximum ==
    ForwardPropagated =>
        \A n \in MeshNodes : final_velocity[n] <= maximum_velocity[n]

\* a forward step whose traction limit exceeded the node's maximum velocity
\* has been capped, and the solve has gone on to the backward passes
C2_Witness ==
    /\ pc = "backward"
    /\ step.pass = "forward"
    /\ step.traction_limited_velocity > maximum_velocity[step.node]
    /\ final_velocity[step.node] = maximum_velocity[step.node]

\* C3: once the forward and backward passes are over, every node's
\* final_velocity equals the initial_velocity of the node after it.
C3_Continuity ==
    Propagated =>
        \A n \in MeshNodes \ {node_count - 1} :
            final_velocity[n] = initial_velocity[n + 1]

\* a solve has returned in which an interior apex started a forward pass at
\* its maximum velocity and a later pass has replaced that initial velocity
C3_Witness ==
    /\ pc = "returned"
    /\ \E n \in apex_indices \ {0, node_count - 1} :
           /\ initial_velocity[n] # maximum_velocity[n]
           /\ final_velocity[n - 1] > 0

\* C4: an anchored velocity never changes and stays anchored, and from the
\* first solve on node 0 is anchored with initial_velocity 0, through every
\* solve of the quasi-transient loop.
C4_AnchoredVelocityKept ==
    /\ []((pc # "start" \/ iteration > 0) =>
              (initial_velocity_anchored[0] /\ initial_velocity[0] = 0))
    /\ [][\A n \in Nodes :
              /\ initial_velocity_anchored[n] =>
                     /\ initial_velocity_anchored'[n]
                     /\ initial_velocity'[n] = initial_velocity[n]
              /\ final_velocity_anchored[n] =>
                     /\ final_velocity_anchored'[n]
                     /\ final_velocity'[n] = final_velocity[n]]_vars

\* in a later solve of the loop, the forward pass from node 0 has asked for
\* the node's (positive) maximum velocity and node 0 still starts at rest
C4_Witness ==
    /\ iteration >= 1
    /\ pc = "propagate_forward"
    /\ step.pass = "forward"
    /\ index = 1
    /\ maximum_velocity[0] > 0
    /\ initial_velocity_anchored[0]
    /\ initial_velocity[0] = 0

\* the interior nodes l .. r carry one maximum velocity, and the nodes just
\* outside them a strictly larger one
LowPlateau(mv, l, r) ==
    /\ 0 < l /\ l <= r /\ r < node_count - 1
    /\ \A n \in l .. r : mv[n] = mv[l]
    /\ mv[l - 1] > mv[l]
    /\ mv[r + 1] > mv[r]

C6_LoopReturnsWithoutError ==
    /\ error = "none"
    /\ loop # "raised"
    /\ iteration < MAXIMUM_TRANSIENT_ITERATIONS
    /\ loop = "returned" =>
           \/ convergence_achieved(times, CONVERGENCE_TOLERANCE)
           \/ iteration = MAXIMUM_TRANSIENT_ITERATIONS - 1

\* C7: when the loop returns at the iteration cap without convergence, a
\* non-convergence event has been logged.
C7_NonConvergenceLogged ==
    (/\ loop = "returned"
     /\ ~convergence_achieved(times, CONVERGENCE_TOLERANCE)) =>
        "NonConvergence" \in log

\* C8: when the vehicle model fails inside a propagation step, the step
\* completes with the node's current velocity as the traction-limited
\* velocity (initial_velocity in the forward pass, final_velocity in the
\* backward pass) and the solve goes on without an error.
C8_FailureRecoveredInStep ==
    [][/\ (ForwardStep /\ acceleration.raised) =>
              /\ step'.pass = "forward" /\ step'.node = index
              /\ step'.caught = "vehicle_model"
              /\ step'.traction_limited_velocity = initial_velocity[index]
              /\ error' = "none"
              /\ pc' \in {"propagate_forward", "forward"}
       /\ (BackwardStep /\ deceleration.raised /\ step' # step) =>
              /\ step'.pass = "backward" /\ step'.node = index
              /\ step'.caught = "vehicle_model"
              /\ step'.traction_limited_velocity = final_velocity[index]
              /\ error' = "none"
              /\ pc' = "propagate_backward"]_vars

\* the deceleration limit failed in this solve, a backward step fell back on
\* a positive final velocity, and the solve has returned
C8_Witness ==
    /\ pc = "returned"
    /\ error = "none"
    /\ deceleration.raised
    /\ step.pass = "backward"
    /\ step.caught = "vehicle_model"
    /\ step.traction_limited_velocity > 0

\* C9: after a solve has returned, with non-negative energies, the state of
\* charge does not increase from a node to the next, node 0 keeps the state
\* of charge it was given, and every later node's state of charge is its
\* predecessor's updated with the predecessor's energy.
C9_StateOfChargeRecurrence ==
    pc = "returned" =>
        /\ state_of_charge[0] = FULL_STATE_OF_CHARGE
        /\ \A n \in MeshNodes \ {0} :
               /\ state_of_charge[n] <= state_of_charge[n - 1]
               /\ ~energy_used(initial_velocity, final_velocity,
                               accumulator_power, n - 1).raised
               /\ state_of_charge[n] =
                      update_state_of_charge(
                          state_of_charge[n - 1],
                          energy_used(initial_velocity, final_velocity,
                                      accumulator_power, n - 1).value)

\* a solve has returned with energy drawn along the whole lap
C9_Witness ==
    /\ pc = "returned"
    /\ state_of_charge[1] < FULL_STATE_OF_CHARGE
    /\ node_count = NumNodes
    /\ state_of_charge[NumNodes - 1] < state_of_charge[1]

\* C10: for every curvature (0 included), banking and tyre outcome, the
\* lateral limit raises no error and returns, within the iteration limit, a
\* velocity that is not negative.
C10_LateralReturnsVelocity ==
    /\ lateral.error = "none"
    /\ lateral.pc # "raised"
    /\ lateral.i <= LATERAL_ITERATION_LIMIT
    /\ lateral.pc = "returned" => lateral.v >= 0

\* every node of the mesh has the same lateral limit: one corner of constant
\* curvature, or a straight, where the limit is the vehicle's maximum velocity
ConstantLimit == \A n \in MeshNodes : lateral_limit[n] = lateral_limit[0]

\* C11: on a mesh of a single node (of curvature 0), a solve that has
\* returned leaves the node's final_velocity at 0.
C11_SingleNodeStaysAtRest ==
    (node_count = 1 /\ pc = "returned") => final_velocity[0] = 0

\* C12: on a mesh whose nodes all have the same lateral velocity limit, a
\* solve that has returned leaves every node's final_velocity, node 0's
\* included, at that limit.
C12_ConstantCornerAtLimit ==
    (ConstantLimit /\ pc = "returned") =>
        \A n \in MeshNodes : final_velocity[n] = lateral_limit[n]

\* node m is the only interior node whose lateral limit is strictly below
\* both neighbours'
SingleInteriorMinimum(m) ==
    /\ m \in MeshNodes \ {0, node_count - 1}
    /\ \A n \in MeshNodes \ {0, node_count - 1} :
           (/\ lateral_limit[n] < lateral_limit[n - 1]
            /\ lateral_limit[n] < lateral_limit[n + 1]) <=> n = m

\* C13: on a mesh with exactly one interior strict minimum of the maximum
\* velocity, after a solve that has returned the minimum is flagged as an
\* apex and no other node is, node 0 and node N-1 included.
C13_OnlyInteriorApexRemains ==
    \A m \in MeshNodes :
        (SingleInteriorMinimum(m) /\ pc = "returned") =>
            \A n \in MeshNodes : apex[n] <=> n = m

\* C14: on a straight of equal nodes with a constant acceleration a >= 0
\* (and a braking limit that is not negative), a solve that has returned
\* leaves final_velocity[i]^2 = min(2 * a * length * (i + 1), vmax^2) at
\* every node i, and the velocity never decreases along the mesh.
C14_StraightLineKinematics ==
    (/\ ConstantLimit
     /\ pc = "returned"
     /\ ~acceleration.raised /\ acceleration.value >= 0
     /\ (deceleration.raised \/ deceleration.value >= 0)) =>
        \A n \in MeshNodes :
            /\ final_velocity[n] =
                   Min(2 * acceleration.value * length(n) * (n + 1),
                       lateral_limit[n])
            /\ initial_velocity[n] <= final_velocity[n]
            /\ n > 0 => final_velocity[n - 1] <= final_velocity[n]

\* a solve has returned on a straight of NumNodes nodes whose first node is
\* left below the vehicle's maximum velocity and whose last node is capped
\* by it
C14_Witness ==
    /\ pc = "returned"
    /\ node_count = NumNodes
    /\ ConstantLimit
    /\ ~acceleration.raised /\ acceleration.value > 0
    /\ ~deceleration.raised /\ deceleration.value > 0
    /\ final_velocity[0] < lateral_limit[0]
    /\ final_velocity[1] > final_velocity[0]
    /\ final_velocity[NumNodes - 1] = lateral_limit[NumNodes - 1]

\* ---------------------------------------------------------------- C15
\* the positions of the nodes are strictly increasing
StrictlyIncreasing(nodes) ==
    \A i \in 1 .. (Len(nodes) - 1) : nodes[i].position < nodes[i + 1].position

\* nodes is laps copies, one after the other, of the base nodes: the same
\* lengths and curvatures in the same order
Repeats(nodes, base, laps) ==
    /\ Len(nodes) = laps * Len(base)
    /\ \A lap \in 0 .. (laps - 1) : \A i \in 1 .. Len(base) :
           /\ nodes[lap * Len(base) + i].length = base[i].length
           /\ nodes[lap * Len(base) + i].curvature = base[i].curvature

\* the least number of laps of the mesh that cover 22000 m
EnduranceLaps(m) ==
    CHOOSE laps \in 1 .. ENDURANCE_TRACK_LENGTH :
        /\ laps * track_length(m) >= ENDURANCE_TRACK_LENGTH * m.scale
        /\ (laps - 1) * track_length(m) < ENDURANCE_TRACK_LENGTH * m.scale

C15_EnduranceShape ==
    endurance_mesh # NoMesh =>
        /\ Repeats(endurance_mesh.nodes, mesh.nodes, EnduranceLaps(mesh))
        /\ track_length(endurance_mesh)
               >= ENDURANCE_TRACK_LENGTH * endurance_mesh.scale
        /\ StrictlyIncreasing(endurance_mesh.nodes)
        /\ (track_length(mesh) = 3 * MetresPerKilometre * mesh.scale =>
                /\ Len(endurance_mesh.nodes) = 8 * Len(mesh.nodes)
                /\ track_length(endurance_mesh)
                       = 24 * MetresPerKilometre * endurance_mesh.scale)

\* C15: the endurance mesh is ceil(22000 / L) copies of the base node
\* sequence in order, its total length is at least 22000 m, its positions
\* are strictly increasing (L = 3000 m: 8 repeats, 24000 m), and deriving
\* it leaves the base mesh as it was.
C15_EnduranceMesh ==
    /\ []C15_EnduranceShape
    /\ [][(endurance_mesh = NoMesh /\ endurance_mesh' # NoMesh)
              => mesh' = mesh]_vars

\* an endurance mesh of 8 laps of a 3000 m base mesh of several nodes,
\* the first of them not at position 0
C15_Witness ==
    /\ endurance_mesh # NoMesh
    /\ Len(mesh.nodes) > 1
    /\ mesh.nodes[1].position > 0
    /\ Len(endurance_mesh.nodes) = 8 * Len(mesh.nodes)

\* ---------------------------------------------------------------- C16
\* position[0] = 0, consecutive positions differ by the node's length,
\* every length is positive and the lengths sum to total
WellFormed(m, total) ==
    /\ m.nodes[1].position = 0
    /\ \A i \in 1 .. (Len(m.nodes) - 1) :
           m.nodes[i + 1].position - m.nodes[i].position = m.nodes[i].length
    /\ \A i \in 1 .. Len(m.nodes) : m.nodes[i].length > 0
    /\ track_length(m) = total

\* C16: every mesh produced by generate_mesh or generate_endurance_mesh
\* starts at position 0, has position[i+1] - position[i] = length[i],
\* positive lengths, and lengths that sum to the total track length.
C16_MeshWellFormed ==
    /\ (track_data # NoTrack /\ mesh # NoMesh =>
            WellFormed(mesh, track_data.total_length * mesh.scale))
    /\ (endurance_mesh # NoMesh =>
            WellFormed(endurance_mesh,
                       EnduranceLaps(mesh) * track_length(mesh)))

\* an endurance mesh of several laps of a generated mesh of several nodes
C16_Witness ==
    /\ track_data # NoTrack
    /\ Len(mesh.nodes) > 2
    /\ endurance_mesh # NoMesh
    /\ Len(endurance_mesh.nodes) > 2 * Len(mesh.nodes)

\* ---------------------------------------------------------------- C17
\* C17: generate_mesh produces exactly N = round(L / D) nodes, at the
\* positions i * L / (N - 1) for i = 0 .. N - 1.
C17_NodeCountAndPositions ==
    (track_data # NoTrack /\ (mesh # NoMesh \/ mesh_error # "none")) =>
        LET N == round(track_data.total_length, track_data.resolution)
        IN /\ mesh_error = "none"
           /\ Len(mesh.nodes) = N
           /\ \A i \in 0 .. (N - 1) :
                  mesh.nodes[i + 1].position * (N - 1)
                      = i * track_data.total_length * mesh.scale

\* ---------------------------------------------------------------- C18
\* the registry a lookup reads
RegistryOf(l) ==
    IF l.registry = "channel" THEN channel_registry ELSE parameter_registry

\* C18: a lookup of a name that was never registered raises KeyError, a
\* lookup of a registered name returns the channel class, or an instance of
\* the parameter class, registered under exactly that name, and a lookup
\* leaves both registries as they were.
C18_RegistryLookup ==
    [][lookup' # lookup =>
           /\ channel_registry' = channel_registry
           /\ parameter_registry' = parameter_registry
           /\ IF lookup'.name \in DOMAIN RegistryOf(lookup')
              THEN /\ lookup'.error = "none"
                   /\ lookup'.class = RegistryOf(lookup')[lookup'.name]
                   /\ lookup'.kind = IF lookup'.registry = "channel"
                                     THEN "class" ELSE "instance"
              ELSE lookup'.error = "KeyError" /\ lookup'.kind = "none"]_vars

\* a name unknown to a registry that holds another name was looked up
C18_Witness ==
    /\ lookup.error = "KeyError"
    /\ DOMAIN RegistryOf(lookup) # {}
    /\ lookup.name \notin DOMAIN RegistryOf(lookup)

\* ---------------------------------------------------------------- C19
\* C19: over base channels of n >= 1 values, every channel built with
\* negate, add, subtract, product, divide, difference, cumulative_sum,
\* derivative or integral returns exactly n values (a division by a zero
\* value aside).
C19_CombinatorsPreserveLength ==
    (channel_output.function # "none"
         /\ channel_output.error # "ZeroDivisionError") =>
        /\ channel_output.error = "none"
        /\ Len(channel_output.values) = Len(base_channels[1])

\* ---------------------------------------------------------------- C20
\* the number of cells whose voltages the last call added up
CellsCounted ==
    IF voltage.of = "accumulator" THEN accumulator.cells_in_series ELSE 1

\* C20: get_voltage of a cell and of an accumulator raises ValueError for
\* a state of charge below 0 or above 1, and for s in [0, 1] returns
\* charge_voltage * s + discharge_voltage * (1 - s), times cells_in_series
\* for the accumulator: the minimum voltage at 0, the maximum at 1.
C20_VoltageInterpolation ==
    voltage.of # "none" =>
        IF voltage.state_of_charge < 0 \/ voltage.state_of_charge > SocSteps
        THEN voltage.error = "ValueError"
        ELSE /\ voltage.error = "none"
             /\ voltage.value =
                    (accumulator.charge_voltage * voltage.state_of_charge
                         + accumulator.discharge_voltage
                               * (SocSteps - voltage.state_of_charge))
                        * CellsCounted
             /\ (voltage.state_of_charge = 0 =>
                     /\ voltage.value = accumulator.discharge_voltage
                                            * SocSteps * CellsCounted
                     /\ (voltage.of = "accumulator" =>
                             voltage.value
                                 = minimum_voltage(accumulator).value))
             /\ (voltage.state_of_charge = SocSteps =>
                     /\ voltage.value = accumulator.charge_voltage
                                            * SocSteps * CellsCounted
                     /\ (voltage.of = "accumulator" =>
                             voltage.value
                                 = maximum_voltage(accumulator).value))

\* the voltage of a full accumulator of several cells was returned
C20_Witness ==
    /\ voltage.of = "accumulator"
    /\ voltage.error = "none"
    /\ voltage.state_of_charge = SocSteps
    /\ accumulator.cells_in_series > 1
    /\ accumulator.charge_voltage > accumulator.discharge_voltage
    /\ accumulator.discharge_voltage > 0

\* ---------------------------------------------------------------- C21
\* the list is in ascending order of maximum velocity, equal velocities in
\* ascending order of index
AscendingStartPoints(list) ==
    \A i \in 1 .. (Len(list) - 1) :
        \/ maximum_velocity[list[i]] < maximum_velocity[list[i + 1]]
        \/ /\ maximum_velocity[list[i]] = maximum_velocity[list[i + 1]]
           /\ list[i] < list[i + 1]

\* a forward or a backward pass starts in this step
PassStarts ==
    \/ pc = "forward" /\ pc' = "propagate_forward"
    \/ pc = "backward" /\ pc' = "propagate_backward"

\* C21: in the forward and in the backward phase the start points are
\* taken in ascending order of maximum velocity, ties by the lower index;
\* a node whose apex flag was cleared before its turn starts no pass; all
\* forward passes are over before the first backward pass starts.
C21_StartPointOrder ==
    /\ [](pc \in {"forward", "propagate_forward", "backward",
                  "propagate_backward"} => AscendingStartPoints(worklist))
    /\ [][PassStarts =>
              /\ index' = Head(worklist)
              /\ worklist' = Tail(worklist)
              /\ apex[index']]_vars
    /\ [][(pc \in {"forward", "backward"} /\ worklist # <<>>
               /\ ~apex[Head(worklist)]) =>
              (pc' = pc /\ UNCHANGED nodeVars)]_vars
    /\ [][(pc \in {"backward", "propagate_backward"}) =>
              (pc' # "forward" /\ pc' # "propagate_forward")]_vars

\* the next start point in the list has the maximum velocity of node 0,
\* which came before it, and has lost its flag to an earlier pass
C21_Witness ==
    /\ pc \in {"forward", "backward"}
    /\ worklist # <<>>
    /\ Head(worklist) # 0
    /\ maximum_velocity[Head(worklist)] = maximum_velocity[0]
    /\ ~apex[Head(worklist)]

C23_BackwardStopsAtEquality ==
    [][(pc = "propagate_backward" /\ index > 0
            /\ final_velocity[index - 1] <= final_velocity[index]) =>
           /\ pc' = "backward"
           /\ \A n \in {index - 1, index} :
                  /\ initial_velocity'[n] = initial_velocity[n]
                  /\ final_velocity'[n] = final_velocity[n]
                  /\ apex'[n] = apex[n]]_vars

\* ---------------------------------------------------------------- C24
\* the velocity a backward step at node index computes for nodes[index - 1]
NewVelocity ==
    backward_initial_velocity(
        traction_limit_velocity_braking(index).velocity, index)

\* C24: in a backward step that finds node i-1 flagged, the flag is
\* cleared only if the newly computed velocity is strictly below
\* nodes[i-1].final_velocity as it was; otherwise the flag is kept and the
\* pass stops at that node.
C24_BackwardApexRule ==
    [][(pc = "propagate_backward" /\ index > 0 /\ apex[index - 1]
            /\ ~(final_velocity[index - 1] < final_velocity[index])) =>
           IF NewVelocity < final_velocity[index - 1]
           THEN ~apex'[index - 1]
           ELSE apex'[index - 1] /\ pc' = "backward"]_vars

\* ---------------------------------------------------------------- C26
\* C26: with limits a >= 0 and d >= 0 that do not fail, after a solve
\* every node has final_velocity^2 <= initial_velocity^2 + 2*a*length and
\* initial_velocity^2 <= final_velocity^2 + 2*d*length.
C26_WithinTractionLimits ==
    (Propagated /\ NonNegativeLimits) =>
        \A n \in MeshNodes :
            /\ final_velocity[n]
                   <= initial_velocity[n] + 2 * acceleration.value * length(n)
            /\ initial_velocity[n]
                   <= final_velocity[n] + 2 * deceleration.value * length(n)

\* a solve has returned in which a node brakes at exactly the deceleration
\* limit and another accelerates at exactly the acceleration limit, on a
\* profile with a plateau
C26_Witness ==
    /\ pc = "returned"
    /\ NonNegativeLimits
    /\ acceleration.value > 0
    /\ deceleration.value > 0
    /\ \E n \in MeshNodes :
           /\ final_velocity[n] < initial_velocity[n]
           /\ initial_velocity[n]
                  = final_velocity[n] + 2 * deceleration.value * length(n)
    /\ \E n \in MeshNodes :
           /\ n > 0
           /\ final_velocity[n]
                  = initial_velocity[n] + 2 * acceleration.value * length(n)
    /\ \E n \in MeshNodes :
           n > 0 /\ maximum_velocity[n] = maximum_velocity[n - 1]

\* ---------------------------------------------------------------- C27
\* C27: on a mesh whose maximum velocities are all positive, a solve never
\* evaluates a node's time with an average velocity of 0.
C27_NoZeroAverageVelocity ==
    (\A n \in MeshNodes : lateral_limit[n] > 0) =>
        (pc # "raised" /\ error # "ZeroDivisionError")

\* ---------------------------------------------------------------- C25
\* C25: a solve on the Solution the previous solve returned, with the
\* state variables and the vehicle model's outputs unchanged, ends with
\* the maximum, initial and final velocities and the apex flags of the
\* first solve, and returns as the first did.
C25_RerunReproducesSolution ==
    first_run # NoRun =>
        /\ pc # "raised"
        /\ (pc \in {"resolve", "returned"} =>
                /\ maximum_velocity = first_run.maximum_velocity
                /\ initial_velocity = first_run.initial_velocity
                /\ final_velocity = first_run.final_velocity
                /\ apex = first_run.apex)

\* the second solve has returned on a solution whose first solve had
\* cleared apex flags, left a node below its maximum velocity and slowed
\* down from one node to the next
C25_Witness ==
    /\ first_run # NoRun
    /\ pc = "returned"
    /\ \E n \in apex_indices : ~first_run.apex[n]
    /\ \E n \in MeshNodes :
           first_run.final_velocity[n] < first_run.maximum_velocity[n]
    /\ \E n \in MeshNodes :
           n > 0 /\ first_run.final_velocity[n] < first_run.final_velocity[n - 1]

\* ---------------------------------------------------------------- C28
\* C28: for the same initial velocity and node length, of two calls of
\* traction_limit_velocity the one with the lower acceleration never
\* returns the higher velocity, a negative radicand included.
C28_MonotoneInAcceleration ==
    \A i, j \in DOMAIN traction_calls :
        (/\ ~traction_calls[i].acceleration.raised
         /\ ~traction_calls[j].acceleration.raised
         /\ traction_calls[i].acceleration.value
                <= traction_calls[j].acceleration.value)
            => traction_calls[i].velocity <= traction_calls[j].velocity

\* ---------------------------------------------------------------- C29
\* C29: generate_mesh does not modify the TrackData it is given: no call
\* changes the position or value lists of the grip-factor and sector data,
\* which keep strictly increasing positions, as many as their values.
C29_TrackDataUnmodified ==
    /\ [][/\ track_data'.grip_factor = track_data.grip_factor
          /\ track_data'.sector = track_data.sector]_vars
    /\ [](\A data \in {track_data.grip_factor, track_data.sector} :
              /\ Len(data.position) = Len(data.value)
              /\ \A i \in 1 .. (Len(data.position) - 1) :
                     data.position[i] < data.position[i + 1])

\* ---------------------------------------------------------------- C30
\* the base points and the maximum score of an event
BasePoints(event) == IF event = "endurance" THEN 25 ELSE 5
MaximumScore(event) ==
    CASE event = "acceleration" -> 65
      [] event = "skidpad" -> 70
      [] event = "autocross" -> 95
      [] event = "endurance" -> 225

\* C30: the points of every call lie between the base points of the event
\* and the base points plus its maximum score, are the maximum when t_team
\* <= t_min, and of two calls for one event and one t_min the one with the
\* higher t_team does not get more points.
C30_PointsWithinRange ==
    \A i \in DOMAIN points :
        LET call == points[i]
            lowest == whole(BasePoints(call.event))
            highest == whole(BasePoints(call.event) + MaximumScore(call.event))
        IN /\ less_or_equal(lowest, call.value)
           /\ less_or_equal(call.value, highest)
           /\ (call.t_team <= call.t_min => call.value = highest)
           /\ \A j \in DOMAIN points :
                  (/\ points[j].event = call.event
                   /\ points[j].t_min = call.t_min
                   /\ points[j].t_team >= call.t_team)
                      => less_or_equal(points[j].value, call.value)

====
